---- MODULE Spec2Model ----
(***************************************************************************)
(* scripts/find_trailing_fence.py: walk the tree below '.', read every     *)
(* '*.md' file outside the ignored folders, collect the paths of the files *)
(* whose last line is a bare ``` fence, and print them.                    *)
(*                                                                         *)
(* Text is a sequence of one-character strings.  The backquote cannot be   *)
(* written inside a TLA+ string literal, so Tick stands for it.            *)
(***************************************************************************)
EXTENDS Integers, Sequences, FiniteSets, TLC

VARIABLES
    tree,        \* the directory tree below '.', with each file's content
    stack,       \* os.walk: directories still to be yielded (top = last)
    root,        \* the loop variable `root`: index of the yielded directory
    files,       \* the rest of the loop `for f in files` (file indexes)
    found,       \* the list `found`
    output,      \* the lines printed so far
    next,        \* position of `for p in found`
    pc,          \* where the script is
    opened,      \* history: the paths handed to open(), in order
    visited,     \* history: the directories os.walk yielded, in order
    run,         \* which run of the script on this tree this is
    prevOutput   \* history: what the previous run printed

vars == <<tree, stack, root, files, found, output, next, pc, opened, visited,
          run, prevOutput>>

----------------------------------------------------------------------------
(* Bounds of the model *)

\* directories and files below '.', together
MaxEntries == 3
\* length of a file's content when every content is tried
MaxLen == 5

----------------------------------------------------------------------------
(* Characters and strings *)

Tick == "tick"
Fence == <<Tick, Tick, Tick>>
DotMd == <<".", "m", "d">>
DotGit == <<".", "g", "i", "t">>
NodeModules == <<"n", "o", "d", "e", "_", "m", "o", "d", "u", "l", "e", "s">>
DotVenv == <<".", "v", "e", "n", "v">>

\* str.__contains__: sub occurs in s
Contains(s, sub) ==
    \E i \in 0..(Len(s) - Len(sub)) : SubSeq(s, i + 1, i + Len(sub)) = sub

\* str.endswith
EndsWith(s, suffix) ==
    /\ Len(s) >= Len(suffix)
    /\ SubSeq(s, Len(s) - Len(suffix) + 1, Len(s)) = suffix

\* os.path.join(a, b) for a relative b and an a that does not end in '/'
Join(a, b) == a \o <<"/">> \o b

\* the characters str.splitlines breaks a line at (those TLA+ can write)
LineBreaks == {"\n", "\r", "\f"}
\* the characters str.strip removes (those TLA+ can write)
Whitespace == {" ", "\t", "\n", "\r", "\f"}

\* open(..., 'r') without newline=: '\r\n' and a lone '\r' are read as '\n'
RECURSIVE Translate(_)
Translate(s) ==
    IF s = <<>> THEN <<>>
    ELSE IF s[1] = "\r"
         THEN IF Len(s) >= 2 /\ s[2] = "\n"
              THEN <<"\n">> \o Translate(SubSeq(s, 3, Len(s)))
              ELSE <<"\n">> \o Translate(Tail(s))
         ELSE <<s[1]>> \o Translate(Tail(s))

\* str.splitlines, left to right: `lines` are the finished lines, `cur` the
\* line being read.  A line ends at a line break ('\r\n' counts as one); what
\* follows the last break is a line only if it is not empty.
RECURSIVE SplitFrom(_, _, _)
SplitFrom(s, lines, cur) ==
    IF s = <<>> THEN (IF cur = <<>> THEN lines ELSE Append(lines, cur))
    ELSE IF s[1] \in LineBreaks
         THEN IF s[1] = "\r" /\ Len(s) >= 2 /\ s[2] = "\n"
              THEN SplitFrom(SubSeq(s, 3, Len(s)), Append(lines, cur), <<>>)
              ELSE SplitFrom(Tail(s), Append(lines, cur), <<>>)
         ELSE SplitFrom(Tail(s), lines, Append(cur, s[1]))

\* str.split('\n') instead: what follows the last break is always a line
RECURSIVE SplitKeepingLast(_, _, _)
SplitKeepingLast(s, lines, cur) ==
    IF s = <<>> THEN Append(lines, cur)
    ELSE IF s[1] = "\n"
         THEN SplitKeepingLast(Tail(s), Append(lines, cur), <<>>)
         ELSE SplitKeepingLast(Tail(s), lines, Append(cur, s[1]))

SplitOnNewline(s) == SplitKeepingLast(s, <<>>, <<>>)

SplitLines(s) == SplitFrom(s, <<>>, <<>>)

\* str.strip
RECURSIVE LStrip(_)
LStrip(s) ==
    IF s # <<>> /\ s[1] \in Whitespace THEN LStrip(Tail(s)) ELSE s

RECURSIVE RStrip(_)
RStrip(s) ==
    IF s # <<>> /\ s[Len(s)] \in Whitespace
    THEN RStrip(SubSeq(s, 1, Len(s) - 1))
    ELSE s

Strip(s) == LStrip(RStrip(s))

\* fh.read().splitlines()
ReadLines(content) == SplitLines(Translate(content))

\* the check without .strip()
LastLineIsFenceUntrimmed(lines) ==
    /\ Len(lines) > 0
    /\ lines[Len(lines)] = Fence

\* len(lines) > 0 and lines[-1].strip() == '```'
LastLineIsFence(lines) ==
    /\ Len(lines) > 0
    /\ Strip(lines[Len(lines)]) = Fence

\* the check on the directory's own name instead of on the whole path
IsExcludedByName(path) ==
    \/ EndsWith(path, <<"/">> \o DotGit)
    \/ EndsWith(path, <<"/">> \o NodeModules)
    \/ EndsWith(path, <<"/">> \o DotVenv)

\* the check without '.venv'
IsExcludedNoVenv(path) ==
    \/ Contains(path, DotGit)
    \/ Contains(path, NodeModules)

\* '.git' in root or 'node_modules' in root or '.venv' in root
IsExcluded(path) ==
    \/ Contains(path, DotGit)
    \/ Contains(path, NodeModules)
    \/ Contains(path, DotVenv)

\* the suffix compared without regard to case
IsMarkdownAnyCase(name) ==
    EndsWith(name, DotMd) \/ EndsWith(name, <<".", "M", "D">>)

\* f.endswith('.md')
IsMarkdown(name) == EndsWith(name, DotMd)

----------------------------------------------------------------------------
(* The directory tree.  Directory 0 is '.'; dirs[i] is directory i, listed  *)
(* in the order os.walk reaches them (every parent before its children,     *)
(* siblings in the order the directory listing gives them).  files are the  *)
(* non-directory entries, grouped by directory, in listing order.           *)

MyVenvBackup ==
    <<"m", "y", ".", "v", "e", "n", "v", "-", "b", "a", "c", "k", "u", "p">>
Docs == <<"d", "o", "c", "s">>
DirNames == {DotGit, NodeModules, DotVenv, MyVenvBackup, Docs}

AMd == <<"a", ".", "m", "d">>
BMd == <<"b", ".", "m", "d">>
NotesTxt == <<"n", "o", "t", "e", "s", ".", "t", "x", "t">>
ReadmeUpper == <<"R", "E", "A", "D", "M", "E", ".", "M", "D">>
MarkdownNames == {AMd, BMd}
OtherNames == {NotesTxt, ReadmeUpper}

\* what reading a file does: it succeeds, open() raises, or decoding raises
Outcomes == {"ok", "open", "decode"}

FenceOnly == Fence
FenceThenBlank == Fence \o <<"\n", "\n">>
SampleContents == {FenceOnly, FenceThenBlank}

Alphabet == {Tick, "\n", "\r", " ", "p"}

\* d is directory i's parent in a listing in walk order: the directory
\* listed just before i, or one of its ancestors
RECURSIVE OnLastBranch(_, _, _)
OnLastBranch(ds, d, last) ==
    \/ d = last
    \/ last # 0 /\ OnLastBranch(ds, d, ds[last].parent)

DirEntries(n) == [parent : 0..(n - 1), name : DirNames]

\* ds lists a tree in walk order, no two directories of one parent share a name
WellListed(ds) ==
    /\ \A i \in 1..Len(ds) : ds[i].parent < i
    /\ \A i \in 1..Len(ds) :
        /\ OnLastBranch(ds, ds[i].parent, i - 1)
        /\ \A j \in 1..(i - 1) :
              ~(ds[j].parent = ds[i].parent /\ ds[j].name = ds[i].name)

\* the entries a directory listing can hold for a file.  A file that cannot
\* be read has no content to speak of; a file that is not '*.md' is given the
\* content that would be collected if it were read
FileEntries(n) ==
    { [dir |-> d, name |-> nm, outcome |-> "ok", content |-> c] :
        d \in 0..n, nm \in MarkdownNames, c \in SampleContents }
    \cup
    { [dir |-> d, name |-> nm, outcome |-> o, content |-> <<>>] :
        d \in 0..n, nm \in MarkdownNames, o \in Outcomes \ {"ok"} }
    \cup
    { [dir |-> d, name |-> nm, outcome |-> "ok", content |-> FenceOnly] :
        d \in 0..n, nm \in OtherNames }

\* fs is grouped by directory, no two files of one directory share a name
WellFiled(fs) ==
    \A i \in 1..Len(fs) :
        /\ i > 1 => fs[i - 1].dir <= fs[i].dir
        /\ \A j \in 1..(i - 1) :
              ~(fs[j].dir = fs[i].dir /\ fs[j].name = fs[i].name)

\* t is a tree of n directories and m files
SmallTree(t, n, m) ==
    \E ds \in [1..n -> DirEntries(n)] :
        /\ WellListed(ds)
        /\ \E fs \in [1..m -> FileEntries(n)] :
              /\ WellFiled(fs)
              /\ t = [dirs |-> ds, files |-> fs]

\* t is one readable a.md in '.', whose content is any text of k characters
ContentTree(t, k) ==
    \E c \in [1..k -> Alphabet] :
        t = [dirs |-> <<>>,
             files |-> <<[dir |-> 0, name |-> AMd, outcome |-> "ok",
                          content |-> c]>>]

\* the string os.walk yields as `root` for directory d
RECURSIVE DirPath(_, _)
DirPath(t, d) ==
    IF d = 0 THEN <<".">>
    ELSE Join(DirPath(t, t.dirs[d].parent), t.dirs[d].name)

\* os.path.join(root, f)
FilePath(t, i) == Join(DirPath(t, t.files[i].dir), t.files[i].name)

Indexes(n) == [i \in 1..n |-> i]
Reverse(s) == [i \in 1..Len(s) |-> s[Len(s) + 1 - i]]

\* the `dirs` and `files` os.walk yields with directory d
SubDirs(t, d) ==
    SelectSeq(Indexes(Len(t.dirs)), LAMBDA i : t.dirs[i].parent = d)
FilesOf(t, d) ==
    SelectSeq(Indexes(Len(t.files)), LAMBDA i : t.files[i].dir = d)

----------------------------------------------------------------------------
(* The script *)

NoneLine ==
    <<"No markdown files end with a trailing fence (", Tick, Tick, Tick, ").">>
HeaderLine == <<"Files with trailing fence:">>

Init ==
    /\ \/ \E n \in 0..MaxEntries : \E m \in 0..(MaxEntries - n) :
              SmallTree(tree, n, m)
       \/ \E k \in 0..MaxLen : ContentTree(tree, k)
    /\ stack = <<0>>
    /\ root = 0
    /\ files = <<>>
    /\ found = <<>>
    /\ output = <<>>
    /\ next = 1
    /\ pc = "walk"
    /\ opened = <<>>
    /\ visited = <<>>
    /\ run = 1
    /\ prevOutput = <<>>

\* os.walk('.') top-down: yield the directory on top of the stack, then its
\* subdirectories, first listed first
WalkStack(top) ==
    SubSeq(stack, 1, Len(stack) - 1) \o Reverse(SubDirs(tree, top))

\* line 4: the generator yields the next (root, dirs, files)
WalkYield ==
    /\ pc = "walk"
    /\ stack # <<>>
    /\ LET top == stack[Len(stack)]
       IN  /\ root' = top
           /\ stack' = WalkStack(top)
           /\ visited' = Append(visited, top)
    /\ pc' = "dir"
    /\ UNCHANGED <<tree, files, found, output, next, opened, run, prevOutput>>

\* line 4: the generator is exhausted, the loop ends
WalkEnd ==
    /\ pc = "walk"
    /\ stack = <<>>
    /\ pc' = "report"
    /\ UNCHANGED <<tree, stack, root, files, found, output, next, opened,
                   visited, run, prevOutput>>

\* lines 6-7: an ignored folder, `continue`
SkipExcluded ==
    /\ pc = "dir"
    /\ IsExcluded(DirPath(tree, root))
    /\ pc' = "walk"
    /\ UNCHANGED <<tree, stack, root, files, found, output, next, opened,
                   visited, run, prevOutput>>

\* where the script goes once `rest` is what is left of `for f in files`
AfterFile(rest) == IF rest = <<>> THEN "walk" ELSE "file"

\* lines 6, 8: not an ignored folder, start `for f in files`
EnterFiles ==
    /\ pc = "dir"
    /\ ~IsExcluded(DirPath(tree, root))
    /\ files' = FilesOf(tree, root)
    /\ pc' = AfterFile(files')
    /\ UNCHANGED <<tree, stack, root, found, output, next, opened, visited,
                   run, prevOutput>>

\* line 9: f does not end with '.md', next f
SkipOther ==
    /\ pc = "file"
    /\ ~IsMarkdown(tree.files[Head(files)].name)
    /\ files' = Tail(files)
    /\ pc' = AfterFile(files')
    /\ UNCHANGED <<tree, stack, root, found, output, next, opened, visited,
                   run, prevOutput>>

\* the same without the try: the exception ends the script
ReadFailsUncaught ==
    /\ pc = "file"
    /\ IsMarkdown(tree.files[Head(files)].name)
    /\ tree.files[Head(files)].outcome # "ok"
    /\ opened' = Append(opened, FilePath(tree, Head(files)))
    /\ pc' = "raised"
    /\ UNCHANGED <<tree, stack, root, files, found, output, next, visited,
                   run, prevOutput>>

\* lines 10-18 when open() or read() raises: `except Exception: continue`
ReadFails ==
    /\ pc = "file"
    /\ IsMarkdown(tree.files[Head(files)].name)
    /\ tree.files[Head(files)].outcome # "ok"
    /\ opened' = Append(opened, FilePath(tree, Head(files)))
    /\ files' = Tail(files)
    /\ pc' = AfterFile(files')
    /\ UNCHANGED <<tree, stack, root, found, output, next, visited, run,
                   prevOutput>>

\* found.insert(0, path) instead
CollectInFront(path, lines) ==
    IF LastLineIsFence(lines) THEN <<path>> \o found ELSE found

\* lines 15-16: found.append(path) if the last line is the fence
Collect(path, lines) ==
    IF LastLineIsFence(lines) THEN Append(found, path) ELSE found

\* lines 10-16 when the file is read
CheckFile ==
    /\ pc = "file"
    /\ IsMarkdown(tree.files[Head(files)].name)
    /\ tree.files[Head(files)].outcome = "ok"
    /\ LET path == FilePath(tree, Head(files))
           lines == ReadLines(tree.files[Head(files)].content)
       IN  /\ opened' = Append(opened, path)
           /\ found' = Collect(path, lines)
    /\ files' = Tail(files)
    /\ pc' = AfterFile(files')
    /\ UNCHANGED <<tree, stack, root, output, next, visited, run, prevOutput>>

\* lines 20-21
PrintNone ==
    /\ pc = "report"
    /\ found = <<>>
    /\ output' = Append(output, NoneLine)
    /\ pc' = "done"
    /\ UNCHANGED <<tree, stack, root, files, found, next, opened, visited,
                   run, prevOutput>>

\* lines 22-23
PrintHeader ==
    /\ pc = "report"
    /\ found # <<>>
    /\ output' = Append(output, HeaderLine)
    /\ next' = 1
    /\ pc' = "paths"
    /\ UNCHANGED <<tree, stack, root, files, found, opened, visited, run,
                   prevOutput>>

\* `for p in reversed(found)` instead
PrintPathReversed ==
    /\ pc = "paths"
    /\ output' = Append(output, found[Len(found) + 1 - next])
    /\ next' = next + 1
    /\ pc' = IF next = Len(found) THEN "done" ELSE "paths"
    /\ UNCHANGED <<tree, stack, root, files, found, opened, visited, run,
                   prevOutput>>

\* lines 24-25: one turn of `for p in found`
PrintPath ==
    /\ pc = "paths"
    /\ output' = Append(output, found[next])
    /\ next' = next + 1
    /\ pc' = IF next = Len(found) THEN "done" ELSE "paths"
    /\ UNCHANGED <<tree, stack, root, files, found, opened, visited, run,
                   prevOutput>>

Next ==
    \/ WalkYield
    \/ WalkEnd
    \/ SkipExcluded
    \/ EnterFiles
    \/ SkipOther
    \/ ReadFails
    \/ CheckFile
    \/ PrintNone
    \/ PrintHeader
    \/ PrintPath

Spec == Init /\ [][Next]_vars

\* the script is one sequential process: it always takes its next step
FairSpec == Spec /\ WF_vars(Next)

\* the list of the run before, kept
KeptFound == found

\* line 3 at the start of another run: `found = []`
NewRunFound == <<>>

\* the script is run again on the unmodified tree: a new process, line 3 on
Rerun ==
    /\ pc = "done"
    /\ run = 1
    /\ run' = run + 1
    /\ prevOutput' = output
    /\ found' = NewRunFound
    /\ stack' = <<0>>
    /\ root' = 0
    /\ files' = <<>>
    /\ output' = <<>>
    /\ next' = 1
    /\ pc' = "walk"
    /\ opened' = <<>>
    /\ visited' = <<>>
    /\ UNCHANGED tree

NextTwice == Next \/ Rerun

SpecTwice == Init /\ [][NextTwice]_vars

----------------------------------------------------------------------------
(* What the claims speak of, stated on the tree alone *)

Range(s) == {s[i] : i \in 1..Len(s)}
NoDuplicates(s) == \A i, j \in 1..Len(s) : s[i] = s[j] => i = j
FileIds == 1..Len(tree.files)
DirIds == 0..Len(tree.dirs)

\* the walk is over: the script is at or past line 20
ScanFinished == pc \in {"report", "paths", "done"}

\* the path holds '.git', 'node_modules' or '.venv' somewhere
HasIgnoredPart(path) ==
    \E part \in {DotGit, NodeModules, DotVenv} :
        \E i \in 1..Len(path) :
            /\ i + Len(part) - 1 <= Len(path)
            /\ \A j \in 1..Len(part) : path[i + j - 1] = part[j]

\* file i lies in a directory whose path holds one of the ignored names
InIgnoredDir(i) == HasIgnoredPart(DirPath(tree, tree.files[i].dir))

\* file i's name ends in '.md'
NamedMd(i) ==
    LET nm == tree.files[i].name
    IN  /\ Len(nm) >= 3
        /\ nm[Len(nm) - 2] = "." /\ nm[Len(nm) - 1] = "m" /\ nm[Len(nm)] = "d"

\* file i is a '*.md' file the scan reaches and can read
Candidate(i) ==
    /\ ~InIgnoredDir(i)
    /\ NamedMd(i)
    /\ tree.files[i].outcome = "ok"

\* the lines of file i's content have a last element that trims to the fence
EndsInFence(i) ==
    LET lines == SplitLines(Translate(tree.files[i].content))
    IN  /\ lines # <<>>
        /\ \E a \in 0..Len(lines[Len(lines)]) :
              LET last == lines[Len(lines)]
                  rest == SubSeq(last, a + 1, Len(last))
              IN  /\ \A j \in 1..a : last[j] \in Whitespace
                  /\ Len(rest) >= 3
                  /\ SubSeq(rest, 1, 3) = Fence
                  /\ \A j \in 4..Len(rest) : rest[j] \in Whitespace

PythonFence == Fence \o <<"p">>
FenceNotLast == Fence \o <<"\n", "p">>
SpacedFence == <<" ">> \o Fence \o <<" ">>

(* C1: once the scan has finished, found holds exactly the files that lie   *)
(* outside the ignored folders, are named *.md, can be read, and whose      *)
(* lines end in a line that trims to the fence; so an empty file, a fence   *)
(* with a language tag and a fence that is not on the last line are absent, *)
(* and a last line of a fence between spaces is present.                    *)
C1_ExactResult ==
    ScanFinished =>
        /\ Range(found) =
              {FilePath(tree, i) : i \in {j \in FileIds : Candidate(j) /\ EndsInFence(j)}}
        /\ \A i \in FileIds :
              /\ tree.files[i].content \in {<<>>, PythonFence, FenceNotLast}
                    => FilePath(tree, i) \notin Range(found)
              /\ Candidate(i) /\ tree.files[i].content = SpacedFence
                    => FilePath(tree, i) \in Range(found)

C1_Witness ==
    /\ pc = "done"
    /\ \E i \in FileIds : tree.files[i].content = SpacedFence
    /\ found = <<Join(<<".">>, AMd)>>

(* C2: in every state of the scan, no file in or below a directory whose    *)
(* path holds '.git', 'node_modules' or '.venv' anywhere (a directory named *)
(* my.venv-backup too) is in found, not even a readable *.md file whose     *)
(* last line is the bare fence.                                             *)
C2_Exclusion ==
    \A i \in FileIds : InIgnoredDir(i) => FilePath(tree, i) \notin Range(found)

C2_Witness ==
    /\ pc = "done"
    /\ found = <<>>
    /\ \E i \in FileIds :
          /\ DirPath(tree, tree.files[i].dir) = Join(<<".">>, MyVenvBackup)
          /\ tree.files[i].name = AMd
          /\ tree.files[i].outcome = "ok"
          /\ tree.files[i].content = FenceOnly

(* C7: a file whose name does not end in the exact suffix '.md' (notes.txt, *)
(* README.MD) is never opened and never in found, whatever it holds.        *)
C7_OnlyMarkdown ==
    \A i \in FileIds :
        ~NamedMd(i) =>
            /\ FilePath(tree, i) \notin Range(opened)
            /\ FilePath(tree, i) \notin Range(found)

C7_Witness ==
    /\ pc = "done"
    /\ opened = <<>>
    /\ \E i, j \in FileIds :
          /\ tree.files[i].dir = 0 /\ tree.files[i].name = ReadmeUpper
          /\ tree.files[j].dir = 0 /\ tree.files[j].name = NotesTxt
          /\ tree.files[i].content = FenceOnly
          /\ tree.files[j].content = FenceOnly

\* directory d lies below a directory whose path holds an ignored name
BelowIgnored(d) ==
    d # 0 /\ HasIgnoredPart(DirPath(tree, tree.dirs[d].parent))

(* C9 as stated: once the walk has reached an ignored directory it does not *)
(* descend: no directory below an ignored one is ever visited.              *)
C9_NoDescent ==
    \A k \in 1..Len(visited) : ~BelowIgnored(visited[k])

(* C9 as the code has it: an ignored directory's files are never looked at  *)
(* or opened, but the walk still descends: once it is over, every directory *)
(* of the tree has been visited, those below an ignored one included (each  *)
(* is skipped in its turn, its path holding the same name).                 *)
C9_SkipsFilesOnly ==
    /\ pc = "file" => ~HasIgnoredPart(DirPath(tree, root))
    /\ \A i \in FileIds : InIgnoredDir(i) => FilePath(tree, i) \notin Range(opened)
    /\ ScanFinished => Range(visited) = DirIds

C9_Witness ==
    /\ pc = "done"
    /\ opened = <<>>
    /\ \E d \in DirIds :
          /\ BelowIgnored(d)
          /\ tree.dirs[d].name = Docs
          /\ d \in Range(visited)
          /\ \E i \in FileIds :
                /\ tree.files[i].dir = d
                /\ tree.files[i].name = AMd
                /\ tree.files[i].content = FenceOnly

\* text is the fence followed by n line feeds and nothing else, n >= atLeast
IsFenceThenLineFeeds(text, atLeast) ==
    /\ Len(text) >= 3 + atLeast
    /\ \A j \in 1..Len(text) : text[j] = (IF j <= 3 THEN Tick ELSE "\n")

(* C6 as stated: trailing empty lines are disregarded, so a readable *.md   *)
(* file outside the ignored folders whose content is the fence line and     *)
(* then one or more empty lines is reported.                                *)
C6_TrailingEmptyLinesIgnored ==
    ScanFinished =>
        \A i \in FileIds :
            Candidate(i) /\ IsFenceThenLineFeeds(tree.files[i].content, 2)
                => FilePath(tree, i) \in Range(found)

(* C6 as the code has it: the check looks at the last element of the split  *)
(* lines.  Only the terminator that ends the last line is disregarded: the  *)
(* fence, with or without its line feed, is reported; the fence line and    *)
(* then one or more empty lines is not.                                     *)
C6_LastSplitLine ==
    ScanFinished =>
        \A i \in FileIds :
            Candidate(i) =>
                /\ (tree.files[i].content \in {Fence, Fence \o <<"\n">>}
                      => FilePath(tree, i) \in Range(found))
                /\ (IsFenceThenLineFeeds(tree.files[i].content, 2)
                      => FilePath(tree, i) \notin Range(found))

C6_Witness ==
    /\ pc = "done"
    /\ opened = <<Join(<<".">>, AMd), Join(<<".">>, BMd)>>
    /\ found = <<Join(<<".">>, BMd)>>
    /\ tree.files[1].content = FenceThenBlank
    /\ tree.files[2].content = FenceOnly

\* the lines the script prints for a list of paths
Report(paths) ==
    IF paths = <<>> THEN <<NoneLine>> ELSE <<HeaderLine>> \o paths

(* C4: nothing is printed before the walk is over; what is printed is the   *)
(* single no-match line when found is empty, and otherwise the header, once *)
(* and first, then one line per path of found in the order the files were   *)
(* come upon; the two shapes never mix.                                     *)
C4_Report ==
    /\ output # <<>> => ScanFinished /\ stack = <<>> /\ files = <<>>
    /\ pc = "paths" => output = <<HeaderLine>> \o SubSeq(found, 1, next - 1)
    /\ pc = "done" => output = Report(found)
    /\ found = SelectSeq(opened, LAMBDA q : q \in Range(found))
    /\ NoneLine \in Range(output) => Len(output) = 1
    /\ \A k \in 2..Len(output) : output[k] # HeaderLine

C4_Witness ==
    /\ pc = "done"
    /\ output = <<HeaderLine, Join(<<".">>, BMd), Join(<<".">>, AMd)>>

\* the script is about to read a *.md file and the read raises
AtFailingRead ==
    /\ pc = "file"
    /\ NamedMd(Head(files))
    /\ tree.files[Head(files)].outcome # "ok"

(* C3: a read that fails adds nothing to found, prints nothing and does not *)
(* end the scan: the loop goes on with the next file; and at the end every  *)
(* matching file, come upon before or after the failing one, is printed,    *)
(* the failing one is not.                                                  *)
C3_ReadFailureSkipped ==
    /\ [][AtFailingRead =>
            /\ found' = found
            /\ output' = output
            /\ files' = Tail(files)
            /\ stack' = stack
            /\ pc' = (IF files' = <<>> THEN "walk" ELSE "file")]_vars
    /\ [](pc = "done" =>
            \A i \in FileIds :
                /\ (Candidate(i) /\ EndsInFence(i)
                      => FilePath(tree, i) \in Range(output))
                /\ (tree.files[i].outcome # "ok"
                      => FilePath(tree, i) \notin Range(output)))

C3_Witness ==
    /\ pc = "done"
    /\ Len(tree.files) = 2
    /\ tree.files[1].name = AMd /\ tree.files[1].outcome = "open"
    /\ tree.files[2].name = BMd /\ tree.files[2].content = FenceOnly
    /\ opened = <<Join(<<".">>, AMd), Join(<<".">>, BMd)>>
    /\ output = <<HeaderLine, Join(<<".">>, BMd)>>

(* C10: found only grows, by one path at its end at a time, the path of the *)
(* file just checked; each file is opened at most once, and no path occurs  *)
(* twice in found or in what is printed.                                    *)
C10_AppendOnly ==
    /\ [][\/ found' = found
          \/ /\ pc = "file"
             /\ found' = Append(found, FilePath(tree, Head(files)))]_vars
    /\ [](NoDuplicates(found) /\ NoDuplicates(opened) /\ NoDuplicates(output))

C10_Witness ==
    /\ pc = "done"
    /\ Len(found) = 2
    /\ Len(output) = 3

StepsLeft ==
    LET allFiles == Len(tree.files)
        perDir == allFiles + 2
        notYielded == Len(tree.dirs) + 1 - Len(visited)
        inLoop == CASE pc = "dir" -> allFiles + 1
                    [] pc = "file" -> Len(files)
                    [] OTHER -> 0
        toPrint == CASE pc \in {"walk", "dir", "file"} -> allFiles + 2
                     [] pc = "report" -> allFiles + 1
                     [] pc = "paths" -> Len(found) + 1 - next
                     [] OTHER -> 0
    IN  notYielded * perDir + inLoop + toPrint

\* the script can take a step.  Where it is about to read a *.md file that
\* can be read, that step is CheckFile, which has no other condition
CanStep ==
    IF /\ pc = "file"
       /\ files # <<>>
       /\ NamedMd(Head(files))
       /\ tree.files[Head(files)].outcome = "ok"
    THEN TRUE
    ELSE ENABLED Next

(* C8: the run comes to its end whatever files cannot be read: every step   *)
(* lowers a bound on the steps left, which never falls below zero, and a    *)
(* step is possible wherever the script has not ended, so the script, which *)
(* always takes its next step, ends; no directory is yielded twice; and at  *)
(* the end one of the two reports stands printed.                           *)
C8_Completes ==
    /\ [][StepsLeft' < StepsLeft]_vars
    /\ [](StepsLeft >= 0)
    /\ [](pc = "done" \/ CanStep)
    /\ [](NoDuplicates(visited))
    /\ [](pc = "done" =>
            \/ output = <<NoneLine>>
            \/ Len(output) >= 2 /\ output[1] = HeaderLine
                 /\ NoneLine \notin Range(output))

\* what C8_Completes amounts to under FairSpec
Terminates == <>(pc = "done")

C8_Witness ==
    /\ pc = "done"
    /\ Len(visited) = 3
    /\ \E i \in FileIds : NamedMd(i) /\ ~InIgnoredDir(i) /\ tree.files[i].outcome # "ok"
====
